---- MODULE Spec2Model ----
(***************************************************************************)
(* Model of src/plot/plotters_backend/mod.rs: the PlottersBackend          *)
(* implementation of the Plotter (plot-kind) and PlottingBackend (chart    *)
(* primitive) traits.                                                      *)
(*                                                                         *)
(* f64 values are modelled in fixed point with one decimal digit: the      *)
(* integer n stands for n / 10, so 1.0 is One = 10 and x * 1.1 is          *)
(* (x * 11) \div 10, which is exact on the multiples of 10 the inputs are  *)
(* drawn from.                                                             *)
(***************************************************************************)
EXTENDS Integers, Sequences, FiniteSets, TLC

\* ---- bounds of the model ------------------------------------------------
\* longest LineCurve / Points sequence of a call
MaxLen == 2
\* longest baseline Points sequence of iteration_times
MaxBaseLen == 2
\* longest FilledCurve of a call
MaxCiLen == 2
\* inputs of the range fitter taken on its own: values -FitNeg.0 .. FitPos.0
FitNeg == 1
FitPos == 2
FitLen == 3
\* longest curve of the determinism check
DetLen == 1

\* ---- program constants --------------------------------------------------
\* the f64 literal 1.0 in fixed point
One == 10
\* the f64 literal 1.1 in fixed point
OnePointOne == 11
\* static SIZE: Size = Size(960, 540)
SIZE_W == 960
SIZE_H == 540

\* coordinates the inputs of a render are drawn from: 0.0 and 1.0
Vals == {0, One}

\* ---- curve / geometry value types (crate::plot) ---------------------------
Point(x, y) == [x |-> x, y |-> y]

Line(s, e) == [start |-> s, end |-> e]

LineCurve(xs, ys) == [xs |-> xs, ys |-> ys]

FilledCurve(xs, ys_1, ys_2) == [xs |-> xs, ys_1 |-> ys_1, ys_2 |-> ys_2]

RectangleArea(l, r) == [left |-> l, right |-> r]

Range(s, e) == [start |-> s, end |-> e]

\* Option<Size> and Option<Points>
NoSize == [some |-> FALSE, w |-> 0, h |-> 0]

SomeSize(w, h) == [some |-> TRUE, w |-> w, h |-> h]

NoPoints == [some |-> FALSE, xs |-> <<>>, ys |-> <<>>]

SomePoints(c) == [some |-> TRUE, xs |-> c.xs, ys |-> c.ys]

\* ---- helpers ------------------------------------------------------------
MinOf(S) == CHOOSE m \in S : \A v \in S : m <= v

MaxOf(S) == CHOOSE m \in S : \A v \in S : m >= v

Elems(s) == {s[i] : i \in 1..Len(s)}

SeqsUpTo(V, n) == UNION {[1..k -> V] : k \in 0..n}

\* xs.iter().copied().zip(ys.iter().copied()): stops at the shorter one
Zip(xs, ys) ==
    [i \in 1..(IF Len(xs) <= Len(ys) THEN Len(xs) ELSE Len(ys)) |-> Point(xs[i], ys[i])]

\* plotters::data::fitting_range: the smallest range that covers the data,
\* lb.unwrap_or_else(Zero::zero)..ub.unwrap_or_else(One::one)
fitting_range_one_sided(s) ==
    IF s = <<>> THEN Range(0, One) ELSE Range(0, MaxOf(Elems(s)))

fitting_range(s) ==
    IF s = <<>> THEN Range(0, One) ELSE Range(MinOf(Elems(s)), MaxOf(Elems(s)))

\* size.unwrap_or(SIZE)
unwrap_or_SIZE(size) == IF size.some THEN <<size.w, size.h>> ELSE <<SIZE_W, SIZE_H>>

\* ---- the calls -----------------------------------------------------------
ComparisonOps == {"pdf_comparison", "pdf_comparison_thumbnail", "t_test"}

FigureOps == {"pdf", "pdf_thumbnail", "line_comparison", "violin"} \cup ComparisonOps

UnimplementedOps ==
    {"regression", "regression_thumbnail", "regression_comparison",
     "regression_comparison_thumbnail", "iteration_times", "iteration_times_thumbnail",
     "iteration_times_comparison", "iteration_times_comparison_thumbnail",
     "abs_distributions", "rel_distributions"}

\* the Plotter trait: plot-kind operations
PlotterOps == FigureOps \cup UnimplementedOps \cup {"wait"}

\* the PlottingBackend trait: chart primitives ("p:" tells regression, iteration_times
\* and regression_comparison of PlottingBackend from the Plotter methods of that name)
ThumbnailPrimitives == {"p:iteration_times", "p:regression", "p:regression_comparison"}

PrimitiveOps == {"p:abs_distribution", "p:rel_distribution"} \cup ThumbnailPrimitives

NoCurve == LineCurve(<<>>, <<>>)

NoFilled == FilledCurve(<<>>, <<>>, <<>>)

NoLine == Line(Point(0, 0), Point(0, 0))

NoRect == RectangleArea(0, 0)

\* one call: the operation and its arguments (arguments an operation does not
\* take are left at the No.. values)
Call(op, comparison, size, is_thumbnail, curve, base, ci, base_ci, line, base_line, noise) ==
    [op |-> op, comparison |-> comparison, size |-> size, is_thumbnail |-> is_thumbnail,
     curve |-> curve, base |-> base, ci |-> ci, base_ci |-> base_ci,
     line |-> line, base_line |-> base_line, noise |-> noise]

Sizes == {NoSize, SomeSize(450, 300)}

\* LineCurve / Points: xs and ys of equal length
Curves(n) == {LineCurve(xs, ys) : xs \in SeqsUpTo(Vals, n), ys \in SeqsUpTo(Vals, n)}

PairedCurves(n) == {c \in Curves(n) : Len(c.xs) = Len(c.ys)}

\* FilledCurve of n points: xs 0.0, 1.0, .., upper bound 1.0, lower bound 0.0
FilledCurveOfLen(n) ==
    FilledCurve([i \in 1..n |-> One * (i - 1)], [i \in 1..n |-> One], [i \in 1..n |-> 0])

FilledCurves(n) == {FilledCurveOfLen(k) : k \in 0..n}

\* regression lines start at the origin and end at 0.0, 1.0 or 2.0 on each axis
LineVals == {0, One, 2 * One}

Lines == {Line(Point(0, 0), Point(x, y)) : x \in LineVals, y \in LineVals}

\* the regression lines of regression: slope 0, 1 and 2 over x in [0, 1.0]
RegLines == {Line(Point(0, 0), Point(One, y)) : y \in LineVals}

\* point estimates are vertical markers
PointEstimates == {Line(Point(x, 0), Point(x, One)) : x \in Vals}

NoiseThresholds == {RectangleArea(0, r) : r \in Vals}

PlotterCall(op, cmp) ==
    Call(op, cmp, NoSize, FALSE, NoCurve, NoPoints, NoFilled, NoFilled, NoLine, NoLine, NoRect)

PlotterCalls == {PlotterCall(op, cmp) : op \in PlotterOps, cmp \in BOOLEAN}

AbsCalls(curves, cis, pes) ==
    {Call("p:abs_distribution", FALSE, sz, FALSE, c, NoPoints, ci, NoFilled, pe, NoLine, NoRect) :
        sz \in Sizes, c \in curves, ci \in cis, pe \in pes}

RelCalls(curves, cis, pes, nts) ==
    {Call("p:rel_distribution", FALSE, sz, FALSE, c, NoPoints, ci, NoFilled, pe, NoLine, nt) :
        sz \in Sizes, c \in curves, ci \in cis, pe \in pes, nt \in nts}

IterCalls(curves, bases) ==
    {Call("p:iteration_times", FALSE, sz, th, c, base, NoFilled, NoFilled, NoLine, NoLine, NoRect) :
        sz \in Sizes, th \in BOOLEAN, c \in curves,
        base \in {NoPoints} \cup {SomePoints(p) : p \in bases}}

RegCalls(curves, cis, lines) ==
    {Call("p:regression", FALSE, sz, th, c, NoPoints, ci, NoFilled, l, NoLine, NoRect) :
        sz \in Sizes, th \in BOOLEAN, c \in curves, ci \in cis, l \in lines}

RegCmpCalls(cis, lines) ==
    {Call("p:regression_comparison", FALSE, sz, th, NoCurve, NoPoints, ci, bci, l, bl, NoRect) :
        sz \in Sizes, th \in BOOLEAN, ci \in cis, bci \in cis, l \in lines, bl \in lines}

Calls ==
    PlotterCalls
        \cup AbsCalls(PairedCurves(MaxLen), FilledCurves(MaxCiLen), PointEstimates)
        \cup RelCalls(PairedCurves(MaxLen), FilledCurves(MaxCiLen), PointEstimates,
                      NoiseThresholds)
        \cup IterCalls(PairedCurves(MaxLen), PairedCurves(MaxBaseLen))
        \cup RegCalls(PairedCurves(MaxLen), FilledCurves(MaxCiLen), RegLines)
        \cup RegCmpCalls(FilledCurves(MaxCiLen), Lines)

\* the calls of the determinism check: a few plot kinds and every primitive, on
\* curves whose points lie on the diagonal
DetCurves == {c \in PairedCurves(DetLen) : c.xs = c.ys}

DetLines == {Line(Point(0, 0), Point(One, One)), Line(Point(0, 0), Point(2 * One, One))}

DetCalls ==
    {PlotterCall(op, cmp) : op \in {"pdf", "t_test", "regression"}, cmp \in BOOLEAN}
        \cup AbsCalls(DetCurves, {FilledCurveOfLen(MaxCiLen)}, {Line(Point(0, 0), Point(0, One))})
        \cup RelCalls(DetCurves, {FilledCurveOfLen(MaxCiLen)}, {Line(Point(0, 0), Point(0, One))},
                      {RectangleArea(0, One)})
        \cup IterCalls(DetCurves, {LineCurve(<<0, One>>, <<One, One>>)})
        \cup RegCalls(DetCurves, {FilledCurveOfLen(MaxCiLen)}, {Line(Point(0, 0), Point(One, One))})
        \cup RegCmpCalls({FilledCurveOfLen(MaxCiLen)}, DetLines)

\* ---- state ---------------------------------------------------------------
VARIABLES
    call,       \* the call in progress
    pc,         \* 0: no call in progress; n: step n of Program(call) is next;
                \* Len(Program(call)) + 1: the call has ended
    outcome,    \* how the call ended: Running, Ok or Panic(message)
    figure,     \* a figure function of pdf / summary / t_test was entered
    image,      \* the call wrote its image file
    canvas,     \* root_area
    cb,         \* the ChartBuilder (between calls: the storage of the last one)
    ranges,     \* the locals x_range, y_range
    chart,      \* the ChartContext: what was built and drawn on it
    seen,       \* one ended call and its result, remembered for comparison, and
                \* whether a later call has begun since
    fit_in,     \* the range fitter on its own: its input
    fit_out     \* and its result

vars == <<call, pc, outcome, figure, image, canvas, cb, ranges, chart, seen, fit_in, fit_out>>

Running == [kind |-> "running", msg |-> ""]

Ok == [kind |-> "ok", msg |-> ""]

Panic(m) == [kind |-> "panic", msg |-> m]

\* Option::expect(msg) on None
ExpectMsg == "Shouldn't call comparison method without comparison data."

\* Option::unwrap() on None
UnwrapMsg == "called Option::unwrap() on a None value"

\* unimplemented!()
UnimplementedMsg == "not implemented"

\* confidence_interval.xs[1] on a shorter vector
IndexMsg == "index out of bounds"

\* Sample::new on an empty slice
SampleMsg == "assertion failed"

NoCanvas == [created |-> FALSE, size |-> <<0, 0>>]

NoBuilder == [caption |-> FALSE]

NoRanges == [set |-> FALSE, x |-> Range(0, 0), y |-> Range(0, 0)]

NoChart ==
    [built |-> FALSE, caption |-> FALSE, x |-> Range(0, 0), y |-> Range(0, 0),
     mesh |-> FALSE, series |-> <<>>, legend |-> FALSE]

NoCall ==
    Call("none", FALSE, NoSize, FALSE, NoCurve, NoPoints, NoFilled, NoFilled, NoLine, NoLine, NoRect)

NoFit == [set |-> FALSE, r |-> Range(0, 0)]

\* the locals of a call on entry: PlottersBackend is a unit struct and every method
\* builds its canvas, builder and chart itself, so nothing of an earlier call is kept
NewFrameKeepsBuilder ==
    [canvas |-> NoCanvas, cb |-> cb, ranges |-> NoRanges, chart |-> NoChart]

NewFrame == [canvas |-> NoCanvas, cb |-> NoBuilder, ranges |-> NoRanges, chart |-> NoChart]

\* ---- the steps of each operation, in source order ------------------------
St(k) == [k |-> k, label |-> ""]

Ser(l) == [k |-> "series", label |-> l]

OnlyFullAlways(c, steps) == steps

\* if !is_thumbnail { .. }
OnlyFull(c, steps) == IF c.is_thumbnail THEN <<>> ELSE steps

abs_distribution_steps ==
    <<St("canvas"), St("ranges"), St("caption"), St("build"), St("mesh"),
      Ser("Bootstrap distribution"), Ser("Confidence interval"), Ser("Point estimate"),
      St("legend"), St("ret")>>

rel_distribution_steps_band_first ==
    <<St("ranges"), St("canvas"), St("caption"), St("build"), St("mesh"),
      Ser("Noise threshold"), Ser("Bootstrap distribution"), Ser("Confidence interval"),
      Ser("Point estimate"), St("legend"), St("ret")>>

rel_distribution_steps ==
    <<St("ranges"), St("canvas"), St("caption"), St("build"), St("mesh"),
      Ser("Bootstrap distribution"), Ser("Confidence interval"), Ser("Point estimate"),
      Ser("Noise threshold"), St("legend"), St("ret")>>

iteration_times_steps_always_base(c) ==
    <<St("canvas"), St("ranges"), St("build"), St("mesh"), Ser("Current"), Ser("Base")>>
        \o OnlyFull(c, <<St("caption"), St("legend")>>) \o <<St("ret")>>

iteration_times_steps(c) ==
    <<St("canvas"), St("ranges"), St("build"), St("mesh"), Ser("Current")>>
        \o (IF c.base.some THEN <<Ser("Base")>> ELSE <<>>)
        \o OnlyFull(c, <<St("caption"), St("legend")>>) \o <<St("ret")>>

regression_steps(c) ==
    <<St("canvas")>> \o OnlyFull(c, <<St("caption")>>)
        \o <<St("ranges"), St("build"), St("mesh"),
             Ser("Sample"), Ser("Linear regression"), Ser("Confidence interval")>>
        \o OnlyFull(c, <<St("legend")>>) \o <<St("ret")>>

regression_comparison_steps(c) ==
    <<St("ranges"), St("canvas")>> \o OnlyFull(c, <<St("caption")>>)
        \o <<St("build"), St("mesh"), Ser("Base Sample"), Ser("New Sample")>>
        \o OnlyFull(c, <<St("legend")>>) \o <<St("ret")>>

Program(c) ==
    CASE c.op \in UnimplementedOps -> <<St("unimplemented")>>
      [] c.op = "wait" -> <<St("ret")>>
      [] c.op \in FigureOps -> <<St("args"), St("figure"), St("ret")>>
      [] c.op = "p:abs_distribution" -> abs_distribution_steps
      [] c.op = "p:rel_distribution" -> rel_distribution_steps
      [] c.op = "p:iteration_times" -> iteration_times_steps(c)
      [] c.op = "p:regression" -> regression_steps(c)
      [] c.op = "p:regression_comparison" -> regression_comparison_steps(c)
      [] OTHER -> <<>>

\* ---- axis ranges ---------------------------------------------------------
\* Sample::new(xs).max() / .min() (crate::stats::univariate)
SampleMax(xs) == MaxOf(Elems(xs))

SampleMin(xs) == MinOf(Elems(xs))

Max2(a, b) == IF a >= b THEN a ELSE b

\* the product of two fixed-point values
FMul(a, b) == (a * b) \div One

\* y_range.end *= 1.1
Headroom(r) == Range(r.start, FMul(r.end, OnePointOne))

abs_distribution_ranges_no_headroom(c) ==
    [x |-> fitting_range(c.curve.xs), y |-> fitting_range(c.curve.ys)]

abs_distribution_ranges(c) ==
    [x |-> fitting_range(c.curve.xs), y |-> Headroom(fitting_range(c.curve.ys))]

rel_distribution_ranges(c) ==
    [x |-> Range(SampleMin(c.curve.xs), SampleMax(c.curve.xs)),
     y |-> fitting_range(c.curve.ys)]

iteration_times_ranges_current_only(c) ==
    [x |-> Range(One, SampleMax(c.curve.xs)), y |-> fitting_range(c.curve.ys)]

iteration_times_ranges(c) ==
    IF c.base.some
    THEN [x |-> Range(One, Max2(SampleMax(c.curve.xs), SampleMax(c.base.xs))),
          y |-> fitting_range(c.curve.ys \o c.base.ys)]
    ELSE [x |-> Range(One, SampleMax(c.curve.xs)), y |-> fitting_range(c.curve.ys)]

regression_ranges(c) ==
    [x |-> fitting_range(c.curve.xs), y |-> fitting_range(c.curve.ys)]

regression_comparison_ranges_base_only(c) ==
    [x |-> Range(0, c.line.end.x), y |-> Range(0, c.base_line.end.y)]

regression_comparison_ranges(c) ==
    [x |-> Range(0, c.line.end.x), y |-> Range(0, Max2(c.line.end.y, c.base_line.end.y))]

\* the Sample::new calls of a ranges step fail on an empty slice
RangesPanic(c) ==
    CASE c.op = "p:rel_distribution" -> c.curve.xs = <<>>
      [] c.op = "p:iteration_times" -> c.curve.xs = <<>> \/ (c.base.some /\ c.base.xs = <<>>)
      [] OTHER -> FALSE

RangesOf(c) ==
    CASE c.op = "p:abs_distribution" -> abs_distribution_ranges(c)
      [] c.op = "p:rel_distribution" -> rel_distribution_ranges(c)
      [] c.op = "p:iteration_times" -> iteration_times_ranges(c)
      [] c.op = "p:regression" -> regression_ranges(c)
      [] OTHER -> regression_comparison_ranges(c)

\* ---- series --------------------------------------------------------------
\* the three corners of the confidence band that regression draws
Wedge(ci) ==
    <<Point(ci.xs[1], ci.ys_2[1]), Point(ci.xs[2], ci.ys_1[2]), Point(ci.xs[2], ci.ys_2[2])>>

WedgePanics(ci) == Len(ci.xs) < 2 \/ Len(ci.ys_1) < 2 \/ Len(ci.ys_2) < 2

Segment(l) == <<l.start, l.end>>

SeriesPanics(c, label) ==
    CASE c.op = "p:regression" /\ label = "Confidence interval" -> WedgePanics(c.ci)
      [] c.op = "p:regression_comparison" /\ label = "Base Sample" -> WedgePanics(c.base_ci)
      [] c.op = "p:regression_comparison" /\ label = "New Sample" -> WedgePanics(c.ci)
      [] OTHER -> FALSE

\* the elements one draw_series call draws, as data coordinates
Geometry(c, label, rg) ==
    CASE label \in {"Bootstrap distribution", "Current", "Sample"} -> Zip(c.curve.xs, c.curve.ys)
      [] label = "Base" -> Zip(c.base.xs, c.base.ys)
      [] label = "Confidence interval" /\ c.op = "p:regression" -> Wedge(c.ci)
      [] label = "Confidence interval" -> Zip(c.ci.xs, c.ci.ys_1)
      [] label \in {"Point estimate", "Linear regression"} -> Segment(c.line)
      [] label = "Noise threshold" ->
            <<Point(c.noise.left, rg.y.start), Point(c.noise.right, rg.y.end)>>
      [] label = "Base Sample" -> Segment(c.base_line) \o Wedge(c.base_ci)
      [] label = "New Sample" -> Segment(c.line) \o Wedge(c.ci)
      [] OTHER -> <<>>

Series(label, geom) == [label |-> label, geom |-> geom]

\* SVGBackend::new(&path, size.unwrap_or(SIZE).into()).into_drawing_area()
SVGBackendNew(size) == [created |-> TRUE, size |-> unwrap_or_SIZE(size)]

\* ChartBuilder::build_ranged: the chart gets the caption the builder has now
build_ranged(b, x, y) ==
    [built |-> TRUE, caption |-> b.caption, x |-> x, y |-> y,
     mesh |-> FALSE, series |-> <<>>, legend |-> FALSE]

\* ---- actions -------------------------------------------------------------
AtStep(k) == pc \in 1..Len(Program(call)) /\ Program(call)[pc].k = k

EndPc == Len(Program(call)) + 1

\* the call has ended, by return or by panic, and its effects can be observed
Ended == call # NoCall /\ pc = EndPc

\* what a call produced: the outcome and the chart
Result ==
    [outcome |-> outcome, size |-> canvas.size, x |-> chart.x, y |-> chart.y,
     caption |-> chart.caption, series |-> chart.series, legend |-> chart.legend]

NoSeen ==
    [set |-> FALSE, later |-> FALSE, call |-> NoCall,
     result |-> [outcome |-> Running, size |-> <<0, 0>>, x |-> Range(0, 0), y |-> Range(0, 0),
                 caption |-> FALSE, series |-> <<>>, legend |-> FALSE]]

\* a method of PlottersBackend is called with arguments c
Begin(c) ==
    /\ pc = 0
    /\ call' = c
    /\ pc' = 1
    /\ canvas' = NewFrame.canvas
    /\ cb' = NewFrame.cb
    /\ ranges' = NewFrame.ranges
    /\ chart' = NewFrame.chart
    /\ seen' = [seen EXCEPT !.later = seen.set]
    /\ UNCHANGED <<outcome, figure, image, fit_in, fit_out>>

\* a panic ends the call; whether the canvas dropped while unwinding leaves a file
\* behind is up to the drawing backend
Fail(m) ==
    /\ outcome' = Panic(m)
    /\ pc' = EndPc
    /\ image' \in {FALSE, canvas.created}

\* the Plotter methods whose body is unimplemented!()
UnimplementedOutcomeAsExpect == Panic(ExpectMsg)

UnimplementedOutcome == Panic(UnimplementedMsg)

Unimplemented ==
    /\ AtStep("unimplemented")
    /\ outcome' = UnimplementedOutcome
    /\ pc' = EndPc
    /\ UNCHANGED <<call, figure, image, canvas, cb, ranges, chart, seen, fit_in, fit_out>>

ArgsPanicLenient(c) == FALSE

\* the arguments of the figure call are evaluated before the call: a comparison
\* method unwraps data.comparison
ArgsPanic(c) == c.op \in ComparisonOps /\ ~c.comparison

ArgsMsg(c) == IF c.op = "t_test" THEN UnwrapMsg ELSE ExpectMsg

EvalArgs ==
    /\ AtStep("args")
    /\ IF ArgsPanic(call)
       THEN /\ outcome' = Panic(ArgsMsg(call))
            /\ pc' = EndPc
       ELSE /\ pc' = pc + 1
            /\ UNCHANGED outcome
    /\ UNCHANGED <<call, figure, image, canvas, cb, ranges, chart, seen, fit_in, fit_out>>

\* pdf::pdf, pdf::pdf_small, pdf::pdf_comparison_figure, summary::line_comparison,
\* summary::violin, t_test::t_test: the figure is rendered and written
Figure ==
    /\ AtStep("figure")
    /\ figure' = TRUE
    /\ image' = TRUE
    /\ pc' = pc + 1
    /\ UNCHANGED <<call, outcome, canvas, cb, ranges, chart, seen, fit_in, fit_out>>

CreateCanvas ==
    /\ AtStep("canvas")
    /\ canvas' = SVGBackendNew(call.size)
    /\ pc' = pc + 1
    /\ UNCHANGED <<call, outcome, figure, image, cb, ranges, chart, seen, fit_in, fit_out>>

\* cb.caption(title, font)
Caption ==
    /\ AtStep("caption")
    /\ cb' = [cb EXCEPT !.caption = TRUE]
    /\ pc' = pc + 1
    /\ UNCHANGED <<call, outcome, figure, image, canvas, ranges, chart, seen, fit_in, fit_out>>

FitRanges ==
    /\ AtStep("ranges")
    /\ IF RangesPanic(call)
       THEN /\ Fail(SampleMsg)
            /\ UNCHANGED ranges
       ELSE /\ ranges' = [set |-> TRUE, x |-> RangesOf(call).x, y |-> RangesOf(call).y]
            /\ pc' = pc + 1
            /\ UNCHANGED <<outcome, image>>
    /\ UNCHANGED <<call, figure, canvas, cb, chart, seen, fit_in, fit_out>>

BuildRanged ==
    /\ AtStep("build")
    /\ chart' = build_ranged(cb, ranges.x, ranges.y)
    /\ pc' = pc + 1
    /\ UNCHANGED <<call, outcome, figure, image, canvas, cb, ranges, seen, fit_in, fit_out>>

\* chart.configure_mesh()...draw()
ConfigureMesh ==
    /\ AtStep("mesh")
    /\ chart' = [chart EXCEPT !.mesh = TRUE]
    /\ pc' = pc + 1
    /\ UNCHANGED <<call, outcome, figure, image, canvas, cb, ranges, seen, fit_in, fit_out>>

\* chart.draw_series(..).label(..).legend(..)
DrawSeries ==
    /\ AtStep("series")
    /\ LET label == Program(call)[pc].label IN
        IF SeriesPanics(call, label)
        THEN /\ Fail(IndexMsg)
             /\ UNCHANGED chart
        ELSE /\ chart' = [chart EXCEPT
                            !.series = Append(@, Series(label, Geometry(call, label, ranges)))]
             /\ pc' = pc + 1
             /\ UNCHANGED <<outcome, image>>
    /\ UNCHANGED <<call, figure, canvas, cb, ranges, seen, fit_in, fit_out>>

\* chart.configure_series_labels()...draw()
SeriesLabels ==
    /\ AtStep("legend")
    /\ chart' = [chart EXCEPT !.legend = TRUE]
    /\ pc' = pc + 1
    /\ UNCHANGED <<call, outcome, figure, image, canvas, cb, ranges, seen, fit_in, fit_out>>

\* the method returns; dropping root_area writes the image
Return ==
    /\ AtStep("ret")
    /\ outcome' = Ok
    /\ image' = (image \/ canvas.created)
    /\ pc' = pc + 1
    /\ UNCHANGED <<call, figure, canvas, cb, ranges, chart, seen, fit_in, fit_out>>

\* control is back in the caller: the locals of the call are gone (the storage of
\* the builder is left as it was; NewFrame gives the next call a new one)
Exit ==
    /\ Ended
    /\ call' = NoCall
    /\ pc' = 0
    /\ outcome' = Running
    /\ figure' = FALSE
    /\ image' = FALSE
    /\ canvas' = NoCanvas
    /\ ranges' = NoRanges
    /\ chart' = NoChart
    /\ UNCHANGED <<cb, seen, fit_in, fit_out>>

Step ==
    \/ Unimplemented
    \/ EvalArgs
    \/ Figure
    \/ CreateCanvas
    \/ Caption
    \/ FitRanges
    \/ BuildRanged
    \/ ConfigureMesh
    \/ DrawSeries
    \/ SeriesLabels
    \/ Return
    \/ Exit

Init ==
    /\ call = NoCall
    /\ pc = 0
    /\ outcome = Running
    /\ figure = FALSE
    /\ image = FALSE
    /\ canvas = NoCanvas
    /\ cb = NoBuilder
    /\ ranges = NoRanges
    /\ chart = NoChart
    /\ seen = NoSeen
    /\ fit_in = <<>>
    /\ fit_out = NoFit

\* the caller makes any call of the two traits
CallAny ==
    /\ pc = 0
    /\ \E c \in Calls : Begin(c)

Next ==
    \/ CallAny
    \/ Step

Spec == Init /\ [][Next]_vars

\* ---- the determinism check: one ended call is remembered ------------------
CallProbe ==
    /\ pc = 0
    /\ \E c \in DetCalls : Begin(c)

Remember ==
    /\ Ended
    /\ ~seen.set
    /\ seen' = [set |-> TRUE, later |-> FALSE, call |-> call, result |-> Result]
    /\ UNCHANGED <<call, pc, outcome, figure, image, canvas, cb, ranges, chart, fit_in, fit_out>>

NextDet ==
    \/ CallProbe
    \/ Step
    \/ Remember

SpecDet == Init /\ [][NextDet]_vars

\* ---- the range fitter on its own -----------------------------------------
FitVals == {One * v : v \in (0 - FitNeg)..FitPos}

InitFit ==
    /\ call = NoCall
    /\ pc = 0
    /\ outcome = Running
    /\ figure = FALSE
    /\ image = FALSE
    /\ canvas = NoCanvas
    /\ cb = NoBuilder
    /\ ranges = NoRanges
    /\ chart = NoChart
    /\ seen = NoSeen
    /\ fit_in \in SeqsUpTo(FitVals, FitLen)
    /\ fit_out = NoFit

\* let range = plotters::data::fitting_range(values.iter())
ApplyFit ==
    /\ ~fit_out.set
    /\ fit_out' = [set |-> TRUE, r |-> fitting_range(fit_in)]
    /\ UNCHANGED <<call, pc, outcome, figure, image, canvas, cb, ranges, chart, seen, fit_in>>

NextFit == ApplyFit

SpecFit == InitFit /\ [][NextFit]_vars

\* ==== the claims ==========================================================
Labels(series) == [i \in 1..Len(series) |-> series[i].label]

FullRender == call.op \in PrimitiveOps /\ ~call.is_thumbnail

Completed == Ended /\ outcome = Ok

PreconditionOutcomes == {Panic(ArgsMsg(c)) : c \in {d \in PlotterCalls : ArgsPanic(d)}}

\* C1: a comparison plot kind (pdf_comparison, pdf_comparison_thumbnail, t_test)
\* called without comparison data never enters its figure function, creates no
\* canvas and writes no image, and ends in the panic of expect / unwrap on None.
C1_ComparisonRequired ==
    (call.op \in ComparisonOps /\ ~call.comparison) =>
        /\ ~figure
        /\ ~image
        /\ ~canvas.created
        /\ ~chart.built
        /\ Ended => outcome = Panic(IF call.op = "t_test" THEN UnwrapMsg ELSE ExpectMsg)

C1_Witness ==
    /\ Ended
    /\ call.op = "pdf_comparison_thumbnail"
    /\ ~call.comparison
    /\ outcome.kind = "panic"

\* C2: in a thumbnail render of iteration_times, regression or
\* regression_comparison no caption is ever set on the builder or the chart and
\* the series-label legend is never drawn, at any step.
C2_ThumbnailUndecorated ==
    (call.op \in ThumbnailPrimitives /\ call.is_thumbnail) =>
        /\ ~cb.caption
        /\ ~chart.caption
        /\ ~chart.legend

C2_Witness ==
    /\ Completed
    /\ call.op = "p:regression"
    /\ call.is_thumbnail
    /\ Len(chart.series) = 3

\* C3 (as claimed): a full render of a chart primitive that completes has the
\* title on the chart that was built and the legend drawn.
C3_FullRenderTitled ==
    (Completed /\ FullRender) => (chart.caption /\ chart.legend)

\* C4: a completed iteration_times render has drawn exactly the series "Current"
\* when base_times is absent, and exactly "Current" then "Base" when it is present;
\* each series holds the points of its input in order.
C4_BaselineOptional ==
    (Completed /\ call.op = "p:iteration_times") =>
        /\ Labels(chart.series) = IF call.base.some THEN <<"Current", "Base">> ELSE <<"Current">>
        /\ Len(chart.series[1].geom) = Len(call.curve.xs)
        /\ \A i \in 1..Len(call.curve.xs) :
              chart.series[1].geom[i] = Point(call.curve.xs[i], call.curve.ys[i])
        /\ call.base.some =>
              /\ Len(chart.series[2].geom) = Len(call.base.xs)
              /\ \A i \in 1..Len(call.base.xs) :
                    chart.series[2].geom[i] = Point(call.base.xs[i], call.base.ys[i])

C4_Witness ==
    /\ Completed
    /\ call.op = "p:iteration_times"
    /\ ~call.base.some
    /\ ~call.is_thumbnail
    /\ Len(call.curve.xs) = 2
    /\ Len(chart.series) = 1
    /\ chart.legend

\* C5: a plot kind the backend does not implement never renders and writes no
\* image, and ends in a panic whose outcome differs from every outcome of a
\* comparison method called without comparison data.
C5_UnsupportedDistinct ==
    call.op \in UnimplementedOps =>
        /\ ~figure
        /\ ~image
        /\ ~canvas.created
        /\ Ended => (outcome.kind = "panic" /\ outcome \notin PreconditionOutcomes)

C5_Witness ==
    /\ Ended
    /\ call.op = "iteration_times_comparison"
    /\ outcome.kind = "panic"

CurveMaxY == MaxOf(Elems(call.curve.ys))

AbsChartOfCurve == call.op = "p:abs_distribution" /\ chart.built /\ call.curve.xs # <<>>

C8_RegressionComparisonRanges ==
    (call.op = "p:regression_comparison" /\ chart.built) =>
        /\ chart.x = Range(0, call.line.end.x)
        /\ chart.y.start = 0
        /\ chart.y.end \in {call.line.end.y, call.base_line.end.y}
        /\ chart.y.end >= call.line.end.y
        /\ chart.y.end >= call.base_line.end.y

C8_Witness ==
    /\ Completed
    /\ call.op = "p:regression_comparison"
    /\ call.base_line.end.y = One
    /\ call.line.end.y = 2 * One
    /\ chart.y = Range(0, 2 * One)

\* C9: an ended call with the arguments of a remembered earlier call has the
\* result of that call: the same outcome, canvas size, axis ranges, caption,
\* series and legend, whatever calls ran in between.
C9_Deterministic ==
    (Ended /\ seen.set /\ seen.call = call) => Result = seen.result

C9_Witness ==
    /\ Completed
    /\ seen.set
    /\ seen.later
    /\ seen.call = call
    /\ call.op = "p:regression"
    /\ call.is_thumbnail
    /\ seen.result.series = chart.series
    /\ Len(chart.series) = 3

TwoSeriesChart ==
    /\ chart.built
    /\ \/ call.op = "p:iteration_times" /\ call.base.some
       \/ call.op = "p:regression_comparison"

\* the points of the two series of the chart: current and base
SeriesPoints ==
    IF call.op = "p:iteration_times"
    THEN {Point(call.curve.xs[i], call.curve.ys[i]) : i \in 1..Len(call.curve.xs)}
            \cup {Point(call.base.xs[i], call.base.ys[i]) : i \in 1..Len(call.base.xs)}
    ELSE {call.line.end, call.base_line.end}

\* C10 (as claimed): in a two-series chart the x upper bound is at least every x
\* of both series and the y-range contains every y of both series.
C10_RangesOfUnion ==
    TwoSeriesChart =>
        \A p \in SeriesPoints :
            /\ p.x <= chart.x.end
            /\ chart.y.start <= p.y
            /\ p.y <= chart.y.end

\* C10 (amended): in iteration_times with a baseline the x upper bound is at least
\* every x of both series and the y-range contains every y of both; in
\* regression_comparison the y upper bound is at least both end ys, and the x
\* upper bound is the current regression's end x alone.
C10_RangesOfUnionButRegressionX ==
    TwoSeriesChart =>
        /\ \A p \in SeriesPoints :
            /\ call.op = "p:iteration_times" => p.x <= chart.x.end
            /\ call.op = "p:iteration_times" => chart.y.start <= p.y
            /\ p.y <= chart.y.end
        /\ call.op = "p:regression_comparison" => chart.x.end = call.line.end.x

C10_Witness ==
    /\ Completed
    /\ call.op = "p:iteration_times"
    /\ call.base.some
    /\ call.curve.xs = <<0, 0>>
    /\ call.base.xs = <<0, One>>
    /\ call.curve.ys = <<One, One>>
    /\ call.base.ys = <<0, 0>>
    /\ chart.x.end = One
    /\ chart.y = Range(0, One)

RelSeriesOrder ==
    <<"Bootstrap distribution", "Confidence interval", "Point estimate", "Noise threshold">>

NoiseBand == <<Point(call.noise.left, ranges.y.start), Point(call.noise.right, ranges.y.end)>>

NoiseBandSpansY ==
    \A i \in 1..Len(chart.series) :
        chart.series[i].label = "Noise threshold" => chart.series[i].geom = NoiseBand

\* C11 (as claimed): in rel_distribution the noise-threshold band, the rectangle
\* from (noise_threshold.left, y_range.start) to (noise_threshold.right,
\* y_range.end), is drawn before the bootstrap-distribution line, the
\* confidence-interval area and the point-estimate marker: whenever one of
\* these three is on the chart, the band is already there, earlier in the
\* drawing order.
C11_BandDrawnFirst ==
    call.op = "p:rel_distribution" =>
        /\ NoiseBandSpansY
        /\ \A i \in 1..Len(chart.series) :
              chart.series[i].label # "Noise threshold" =>
                  \E j \in 1..(i - 1) : chart.series[j].label = "Noise threshold"

\* C11 (amended): in rel_distribution the noise-threshold band, the rectangle
\* from (noise_threshold.left, y_range.start) to (noise_threshold.right,
\* y_range.end), is the fourth and last series: at every step of every render
\* the series drawn so far are a prefix of bootstrap distribution, confidence
\* interval, point estimate, noise threshold, so the band is drawn after the
\* other three and lies over them; a render that completes has drawn all four.
C11_BandDrawnLast ==
    call.op = "p:rel_distribution" =>
        /\ NoiseBandSpansY
        /\ Len(chart.series) <= Len(RelSeriesOrder)
        /\ Labels(chart.series) = SubSeq(RelSeriesOrder, 1, Len(chart.series))
        /\ Completed => Len(chart.series) = Len(RelSeriesOrder)

C11_Witness ==
    /\ Completed
    /\ call.op = "p:rel_distribution"
    /\ call.noise.right = One
    /\ call.curve.ys = <<0, One>>
    /\ Len(chart.series) = 4
    /\ chart.series[4] = Series("Noise threshold", <<Point(0, 0), Point(One, One)>>)

\* a confidence-interval FilledCurve of fewer than two points handed to
\* regression or regression_comparison
ShortBand(c) ==
    \/ c.op = "p:regression" /\ WedgePanics(c.ci)
    \/ c.op = "p:regression_comparison" /\ (WedgePanics(c.ci) \/ WedgePanics(c.base_ci))

\* C12 (as claimed, for the confidence-interval case it names): when
\* regression or regression_comparison is given a confidence-interval
\* FilledCurve of fewer than two points, the render fails, and at the moment of
\* failure no canvas has been created for the output path and no series has
\* been drawn.
C12_ShortBandAbortsWithoutOutput ==
    ShortBand(call) =>
        /\ Ended => outcome.kind = "panic"
        /\ outcome.kind = "panic" => ~canvas.created /\ chart.series = <<>>

====
